---- MODULE Spec2Model ----
(***************************************************************************)
(* State-machine model of the ezpzdb record store (src/ezpzdb/db/db.js).   *)
(*                                                                         *)
(* One Database object over one directory.  The variables are the fields   *)
(* of this.storage, the timer handle, the pending timers of the event      *)
(* loop, the clock read by Date.now(), and the files of the directory.     *)
(* Every public method is one action that runs the whole method, including *)
(* the asyncPersistData() call at its end and the flush that call starts   *)
(* synchronously (the promise executor of persistData runs in the caller's *)
(* stack).                                                                 *)
(*                                                                         *)
(* Reading conventions:                                                    *)
(*  - persistData never declares `table` (db.js:183-185), so the first     *)
(*    iteration of its loop throws ReferenceError right after mkdir; the   *)
(*    promise is rejected and nothing after line 185 runs.  Lines 204-205, *)
(*    which do not parse as written, lie in that unreached part.  (Run     *)
(*    without --expose-gc, global.gc() at line 181 throws one step earlier, *)
(*    with the same rejection and no directory made.)                      *)
(*  - get and getAll never read the data file into `buf`; what             *)
(*    msgpack.unpack(buf) yields is the content of a buffer that was never *)
(*    filled: a non-record scalar when the buffer is zero-filled, anything *)
(*    when it is not.  It is a nondeterministic choice from Decoded.       *)
(***************************************************************************)
EXTENDS Integers, Sequences, FiniteSets, TLC

(* ------------------------------ bounds -------------------------------- *)
MaxId == 2
MaxBuf == 2
MaxWrites == 2
MaxNow == 120000

TableNames == {"customers"}
Values == {"a", "b"}

(* ----------------------- JavaScript values ---------------------------- *)
\* `undefined` where a number is expected (a missing id, lastWrite before
\* the first write, beforeLastId before the first insert)
undefined == 0 - 999
\* `null` as the value of this.lastPersistDataTimeout
null == 0 - 1
\* the `id` property of a JavaScript number (removals holds plain numbers)
PropId(n) == undefined
\* the scalar that msgpack.unpack yields for a zero-filled buffer
Scalar0 == [id |-> undefined, v |-> "0"]
NoRec == [id |-> undefined, v |-> "none"]

\* ids a caller may pass: missing, zero, negative, assigned and unassigned
IdInputs == {undefined, 0, 0 - 1} \cup (1 .. MaxId)
\* threshold values a caller may pass to truncate
StartInputs == 0 .. (MaxId - 1)
\* what unpack can make of a buffer that was never filled from the data file:
\* the scalar, or some record (one representative per id)
Decoded == {Scalar0} \cup {[id |-> i, v |-> "garbage"] : i \in 1 .. MaxId}

\* insert samples free memory when (writes + 1) % 250000 === 0
SampleEvery == 250000

VARIABLES
  tables,                 \* this.storage.tables: name -> table object
  tableOrder,             \* key order of this.storage.tables (for .. in)
  writes,                 \* this.storage.writes
  lastWrite,              \* this.storage.lastWrite
  worthPersistingNow,     \* this.storage.worthPersistingNow
  exists,                 \* this.storage.exists
  lastPersistDataTimeout, \* this.lastPersistDataTimeout: a deadline or null
  timers,                 \* pending setTimeout callbacks, by deadline
  now,                    \* Date.now()
  stamp,                  \* <dir>/.stamp is present
  dirs,                   \* the subdirectories of <dir>/tables
  index,                  \* table -> lines of its index file, when present
  data,                   \* table -> bytes of its db file, when present
  opened,                 \* the constructor returned a Database
  lastFlush,              \* outcome of the last persistData call
  inFlight,               \* tables with a flush cycle started and not settled
  ret,                    \* the last call and what it returned or threw
  expected,               \* history: table -> the records the calls made so
                          \* far are meant to leave in it, in id order
  durable,                \* history: `expected` as of the last flush
  fields,                 \* EffSet: this.fields, the field directory
  entries,                \* EffSet: this.entries
  pushed,                 \* history: the record each EffSet index was given
  effRet                  \* the last EffSet call and what it returned

memVars == <<tables, tableOrder, writes, lastWrite, worthPersistingNow, exists>>
timerVars == <<lastPersistDataTimeout, timers>>
diskVars == <<stamp, dirs, index, data>>
histVars == <<expected, durable>>
effVars == <<fields, entries, pushed, effRet>>
dbVars == <<tables, tableOrder, writes, lastWrite, worthPersistingNow, exists,
            lastPersistDataTimeout, timers, now, stamp, dirs, index, data,
            opened, lastFlush, inFlight, ret, expected, durable>>
vars == <<dbVars, effVars>>

Ret(op, t, id, arg, kind, err, rec, items, count) ==
  [op |-> op, table |-> t, id |-> id, arg |-> arg, kind |-> kind, err |-> err,
   rec |-> rec, items |-> items, count |-> count]

(* ------------------------- helpers on arrays -------------------------- *)
\* Array.prototype.findIndex with the predicate item.id === id; 0 for -1
FindIndexById(arr, id) ==
  IF \E i \in 1 .. Len(arr) : arr[i].id = id
  THEN CHOOSE i \in 1 .. Len(arr) :
         /\ arr[i].id = id
         /\ \A j \in 1 .. (i - 1) : arr[j].id # id
  ELSE 0

\* a splice that deletes nothing
SpliceNothing(arr, i) == arr

\* Array.prototype.splice(i, 1)
Splice(arr, i) == [j \in 1 .. (Len(arr) - 1) |-> IF j < i THEN arr[j] ELSE arr[j + 1]]

\* parseInt of an index line: "12,3" -> 12, "2" -> 2
ParseInt(line) == line[1]

\* msgpack.pack of a record, as bytes: a map header, the id, the value's bytes
Pack(r) == <<130, r.id>> \o (IF r.v = "a" THEN <<97>> ELSE <<98, 98>>)

\* msgpack.unpack of the bytes of one packed record
Unpack(bytes) == [id |-> bytes[2], v |-> IF Len(bytes) = 3 THEN "a" ELSE "b"]

(* ------------------------------ EffSet -------------------------------- *)
\* (src/ezpzdb/db/effset.js)  A record is its properties in for .. in order:
\* a sequence of <<key, value>> pairs with distinct keys.
EffKeys == {"id", "name"}
EffVals == {1, 2}
MaxRows == 2
MaxFields == 4
Elems ==
  {<<>>} \cup {<<<<k, x>>>> : k \in EffKeys, x \in EffVals}
  \cup {<<<<kk[1], x1>>, <<kk[2], x2>>>> :
          kk \in {p \in EffKeys \X EffKeys : p[1] # p[2]},
          x1 \in EffVals, x2 \in EffVals}

\* the object an elem denotes: property name -> value
ObjOf(elem) ==
  [k \in {elem[i][1] : i \in 1 .. Len(elem)} |->
     elem[CHOOSE i \in 1 .. Len(elem) : elem[i][1] = k][2]]

\* `key in this.fields`: the `in` operator on an array asks whether key is a
\* property name of the array (an index in use, or "length"), not whether it
\* is one of its elements; no field name of Elems is one
KeyIn(key, arr) == key = "length"

\* this.fields.indexOf(key): first position, 1-based (0 for none)
IndexOf(arr, key) ==
  IF \E i \in 1 .. Len(arr) : arr[i] = key
  THEN CHOOSE i \in 1 .. Len(arr) :
         arr[i] = key /\ \A j \in 1 .. (i - 1) : arr[j] # key
  ELSE 0

\* arr[i] = x on a JavaScript array, i 1-based: a position past the end
\* leaves holes, which read as undefined
SetAt(arr, i, x, hole) ==
  [j \in 1 .. (IF i > Len(arr) THEN i ELSE Len(arr)) |->
     IF j = i THEN x ELSE IF j <= Len(arr) THEN arr[j] ELSE hole]

\* arr[i] read, i 1-based
At(arr, i) == IF i \in 1 .. Len(arr) THEN arr[i] ELSE undefined

\* an element of this.entries: an array of slots, or null after remove (a
\* hole left by an assignment past the end reads as undefined, which get
\* treats as it treats null)
Entry(slots) == [live |-> TRUE, slots |-> slots]
NullEntry == [live |-> FALSE, slots |-> <<>>]

\* the loop of push over the keys of elem, from key number i on: st is
\* [fields, entry]
RECURSIVE pushLoop(_, _, _)
pushLoop(st, elem, i) ==
  IF i > Len(elem) THEN st
  ELSE LET key == elem[i][1]
           fs == IF ~KeyIn(key, st.fields) THEN Append(st.fields, key)
                 ELSE st.fields
       IN pushLoop([fields |-> fs,
                    entry |-> SetAt(st.entry, IndexOf(fs, key), elem[i][2], undefined)],
                   elem, i + 1)

\* the loop of set over the keys of elem: st is [fields, entries]; every
\* iteration stores a new array that holds the one key
RECURSIVE setLoop(_, _, _, _)
setLoop(st, ix, elem, i) ==
  IF i > Len(elem) THEN st
  ELSE LET key == elem[i][1]
           fs == IF ~KeyIn(key, st.fields) THEN Append(st.fields, key)
                 ELSE st.fields
           entry == SetAt(<<>>, IndexOf(fs, key), elem[i][2], undefined)
       IN setLoop([fields |-> fs,
                   entries |-> SetAt(st.entries, ix + 1, Entry(entry), NullEntry)],
                  ix, elem, i + 1)

\* what get(index) returns: undefined for a missing or null entry, else the
\* object built by obj[this.fields[i]] = entry[i] for i = 0, 1, ...: a later
\* position of a name in the directory overwrites an earlier one
NoObj == [found |-> FALSE, obj |-> <<>>]
Obj(o) == [found |-> TRUE, obj |-> o]
effGet(fs, es, ix) ==
  IF ix + 1 \notin 1 .. Len(es) THEN NoObj
  ELSE IF ~es[ix + 1].live THEN NoObj
  ELSE Obj([k \in {fs[i] : i \in 1 .. Len(fs)} |->
              LET last == CHOOSE i \in 1 .. Len(fs) :
                            fs[i] = k /\ \A j \in (i + 1) .. Len(fs) : fs[j] # k
              IN At(es[ix + 1].slots, last)])

effGetAll(fs, es) == [i \in 1 .. Len(es) |-> effGet(fs, es, i - 1)]

EffRet(op, i, value, all) == [op |-> op, index |-> i, value |-> value, all |-> all]

\* new EffSet()
EffSetNew ==
  /\ fields = <<>>
  /\ entries = <<>>
  /\ pushed = <<>>
  /\ effRet = EffRet("new", 0, NoObj, <<>>)

\* what was asked to be stored at an index, and by which call
Given(by, elem) == [by |-> by, view |-> Obj(ObjOf(elem))]

EffSet_push(elem) ==
  /\ Len(entries) < MaxRows
  /\ Len(fields) + Len(elem) <= MaxFields
  /\ LET st == pushLoop([fields |-> fields,
                        entry |-> [j \in 1 .. Len(fields) |-> undefined]],
                       elem, 1)
     IN /\ fields' = st.fields
        /\ entries' = Append(entries, Entry(st.entry))
  /\ pushed' = Append(pushed, Given("push", elem))
  /\ effRet' = EffRet("push", Len(entries), NoObj, <<>>)
  /\ UNCHANGED dbVars

EffSet_set(ix, elem) ==
  /\ ix \in 0 .. (Len(entries) - 1)
  /\ Len(fields) + Len(elem) <= MaxFields
  /\ LET st == setLoop([fields |-> fields, entries |-> entries], ix, elem, 1)
     IN /\ fields' = st.fields
        /\ entries' = st.entries
  /\ pushed' = [pushed EXCEPT ![ix + 1] = Given("set", elem)]
  /\ effRet' = EffRet("set", ix, NoObj, <<>>)
  /\ UNCHANGED dbVars

EffSet_remove(ix) ==
  /\ ix \in 0 .. (Len(entries) - 1)
  /\ entries' = [entries EXCEPT ![ix + 1] = NullEntry]
  /\ pushed' = [pushed EXCEPT ![ix + 1] = [by |-> "remove", view |-> NoObj]]
  /\ effRet' = EffRet("remove", ix, NoObj, <<>>)
  /\ UNCHANGED <<dbVars, fields>>

\* set length (value): this.entries.length = value cuts the array, or extends
\* it with holes
EffSet_setLength(value) ==
  /\ entries' = [j \in 1 .. value |->
                   IF j <= Len(entries) THEN entries[j] ELSE NullEntry]
  /\ pushed' = [j \in 1 .. value |->
                  IF j <= Len(pushed) THEN pushed[j]
                  ELSE [by |-> "length", view |-> NoObj]]
  /\ effRet' = EffRet("length", value, NoObj, <<>>)
  /\ UNCHANGED <<dbVars, fields>>

EffSet_get(ix) ==
  /\ effRet' = EffRet("get", ix, effGet(fields, entries, ix), <<>>)
  /\ UNCHANGED <<dbVars, fields, entries, pushed>>

EffSet_getAll ==
  /\ effRet' = EffRet("getAll", 0, NoObj, effGetAll(fields, entries))
  /\ UNCHANGED <<dbVars, fields, entries, pushed>>

(* ---------------------------- createTable ----------------------------- *)
createTable ==
  [lastId |-> 0, beforeLastId |-> undefined, items |-> <<>>, inserts |-> <<>>,
   updates |-> <<>>, removals |-> <<>>, truncate |-> 0 - 1, cache |-> <<>>]

(* ---------------------------- persistData ----------------------------- *)
\* The files after a persistData call.  The stamp of a new database is
\* written, then the loop over the tables is entered: mkdir of the first
\* table's directory, then `table.truncate` throws ReferenceError (`table` is
\* never declared) and the promise is rejected.  No index or db file is
\* written.  With no table the loop body never runs.
persistedDisk(tbls, order, ds, idx, dat) ==
  [stamp |-> TRUE,
   dirs |-> IF order = <<>> THEN ds ELSE ds \cup {order[1]},
   index |-> idx,
   data |-> dat]

\* the tables whose flush cycle a persistData call starts: the loop body is
\* entered for the first key only
started(order) == IF order = <<>> THEN {} ELSE {order[1]}

\* the tables whose flush cycle is over when the persistData call returns: the
\* ReferenceError is thrown inside the promise executor, which rejects the
\* promise before the call returns
settledLater(order) == {}
settled(order) == started(order)

\* writes is reset at the end of a loop iteration, which is never reached
persistData(tbls, order, w) ==
  LET d == persistedDisk(tbls, order, dirs, index, data)
  IN /\ exists' = TRUE
     /\ stamp' = d.stamp
     /\ dirs' = d.dirs
     /\ index' = d.index
     /\ data' = d.data
     /\ lastFlush' = (IF order = <<>> THEN "done" ELSE "rejected")
     /\ inFlight' = (inFlight \cup started(order)) \ settled(order)
     /\ writes' = w

\* What the promise of a persistData call is rejected with: the
\* ReferenceError of the first loop iteration, nothing when there is no
\* table.  lowMem is os.freemem() < this.storage.leastfree during the call:
\* persistData never reads it.
rejectedWith(order, lowMem) ==
  IF order = <<>> THEN "none" ELSE "ReferenceError"

(* -------------------------- asyncPersistData -------------------------- *)
\* clearTimeout(handle) when handle != null
clearTimeoutSkipped(handle, tms) == tms
clearTimeout(handle, tms) == IF handle # null THEN tms \ {handle} ELSE tms

\* the condition with the long run starting one write late
FlushDueLate(w, lw, worth) ==
  LET dateNow == now
      normalRunDue == w >= 100 /\ lw + 600 * w <= dateNow
      longRunDue == w > 1000 /\ lw + 1000 <= dateNow
      shortRunDue == w < 100 /\ lw + 1000 * 60 * 2 <= dateNow
  IN normalRunDue \/ longRunDue \/ shortRunDue \/ worth

\* the condition under which asyncPersistData starts a flush;
\* 1000 * 60 * writes / 100 is 600 * writes
FlushDue(w, lw, worth) ==
  LET dateNow == now
      normalRunDue == w >= 100 /\ lw + 600 * w <= dateNow
      longRunDue == w >= 1000 /\ lw + 1000 <= dateNow
      shortRunDue == w < 100 /\ lw + 1000 * 60 * 2 <= dateNow
  IN normalRunDue \/ longRunDue \/ shortRunDue \/ worth

\* tbls, order, w, lw, worth, handle, tms: the tables, their key order,
\* writes, lastWrite, worthPersistingNow, this.lastPersistDataTimeout and the
\* pending timers as the caller left them.
asyncPersistData(tbls, order, w, lw, worth, handle, tms) ==
  LET delay == (IF w > 1000 THEN 1 ELSE 60) * 1000
  IN IF FlushDue(w, lw, worth)
     THEN /\ persistData(tbls, order, w)
          /\ worthPersistingNow' = FALSE
          /\ timers' = tms
          /\ lastPersistDataTimeout' = handle
     ELSE /\ timers' = clearTimeout(handle, tms) \cup {now + delay}
          /\ lastPersistDataTimeout' = now + delay
          /\ writes' = w
          /\ worthPersistingNow' = worth
          /\ UNCHANGED <<exists, stamp, dirs, index, data, lastFlush, inFlight>>

(* ----------------------------- read path ------------------------------ *)
\* the index entries the scan loop of get / getAll visits: the lines after
\* the first, up to the first whose parseInt is 0 or NaN
Scanned(lines) ==
  LET body == IF lines = <<>> THEN <<>> ELSE Tail(lines)
      stop == IF \E i \in 1 .. Len(body) : ParseInt(body[i]) = 0
              THEN CHOOSE i \in 1 .. Len(body) :
                     /\ ParseInt(body[i]) = 0
                     /\ \A j \in 1 .. (i - 1) : ParseInt(body[j]) # 0
              ELSE Len(body) + 1
  IN SubSeq(body, 1, stop - 1)

Result(kind, err, rec) == [kind |-> kind, err |-> err, rec |-> rec]

\* the test `id === undefined || id === 0` of update, remove and get
idMissing(id) == id = undefined \/ id = 0

\* What get(table, id) returns or throws.  g is what unpack makes of the
\* unfilled buffer.  A record found in updates or inserts skips the block
\* that holds the only `return item`, so the call returns undefined.
getResult(tbls, idx, dat, t, id, g) ==
  IF idMissing(id)
  THEN Result("throw", "InvalidId", NoRec)
  ELSE IF t \notin DOMAIN tbls
  THEN Result("throw", "TypeError", NoRec)
  ELSE LET tb == tbls[t]
       IN IF FindIndexById(tb.updates, id) # 0 \/ FindIndexById(tb.inserts, id) # 0
          THEN Result("undefined", "none", NoRec)
          ELSE IF \E k \in 1 .. Len(tb.removals) : PropId(tb.removals[k]) = id
          THEN Result("null", "none", NoRec)
          ELSE IF FindIndexById(tb.cache, id) # 0
          THEN Result("record", "none", tb.cache[FindIndexById(tb.cache, id)])
          ELSE IF t \notin DOMAIN idx \/ t \notin DOMAIN dat
          THEN Result("throw", "ENOENT", NoRec)
          ELSE IF Len(Scanned(idx[t])) >= 1 /\ g.id = id
          THEN Result("record", "none", g)
          ELSE Result("null", "none", NoRec)

\* getAll(table) with until = 0.  It reads the index file only: one unpack of
\* the unfilled buffer per scanned entry, stopping after an item whose id is
\* `until`.  items: what the unpack calls yield.
getAllResult(idx, dat, t, items) ==
  IF t \notin DOMAIN idx \/ t \notin DOMAIN dat
  THEN Ret("getAll", t, undefined, NoRec, "throw", "ENOENT", NoRec, <<>>, 0)
  ELSE LET until == 0
           stop == IF \E i \in 1 .. Len(items) : items[i].id = until
                   THEN CHOOSE i \in 1 .. Len(items) :
                          /\ items[i].id = until
                          /\ \A j \in 1 .. (i - 1) : items[j].id # until
                   ELSE Len(items)
       IN Ret("getAll", t, undefined, NoRec, "ok", "none", NoRec,
              SubSeq(items, 1, stop), 0)

(* ------------------- the records a table is meant to hold ------------- *)
\* the records stored in a table's files: the db file cut at the byte lengths
\* of the index entries
RECURSIVE StoredRecords(_, _)
StoredRecords(lines, bytes) ==
  IF lines = <<>> THEN <<>>
  ELSE LET n == ParseInt(lines[1])
       IN <<Unpack(SubSeq(bytes, 1, n))>>
            \o StoredRecords(Tail(lines), SubSeq(bytes, n + 1, Len(bytes)))

ExpOf(e, t) == IF t \in DOMAIN e THEN e[t] ELSE <<>>
ExpSet(e, t, seq) == [x \in DOMAIN e \cup {t} |-> IF x = t THEN seq ELSE e[x]]
\* the records of seq without the one of that id, and rec in its place when
\* rec is a record, in ascending id order
RECURSIVE Keyed(_, _, _)
Keyed(seq, rec, i) ==
  IF i > MaxId + 1 THEN <<>>
  ELSE (IF rec.id = i THEN <<rec>>
        ELSE IF FindIndexById(seq, i) # 0 THEN <<seq[FindIndexById(seq, i)]>>
        ELSE <<>>) \o Keyed(seq, rec, i + 1)
ExpInsert(e, t, rec) == ExpSet(e, t, Keyed(ExpOf(e, t), rec, 1))
ExpUpdate(e, t, d) ==
  ExpSet(e, t, [i \in 1 .. Len(ExpOf(e, t)) |->
                  IF ExpOf(e, t)[i].id = d.id THEN d ELSE ExpOf(e, t)[i]])
ExpRemove(e, t, id) ==
  LET Keep(r) == r.id # id IN ExpSet(e, t, SelectSeq(ExpOf(e, t), Keep))
ExpTruncate(e, t, start) ==
  LET Keep(r) == r.id <= start IN ExpSet(e, t, SelectSeq(ExpOf(e, t), Keep))

(* --------------------------- bounding guards -------------------------- *)
\* write counts from which a behaviour may start (see InitBurst)
BurstStarts == {98, 999, 249997}
BurstBase(w) == CHOOSE b \in BurstStarts \cup {0} :
                  /\ b <= w
                  /\ \A c \in BurstStarts \cup {0} : c <= w => c <= b
WritesLeft == writes - BurstBase(writes) < MaxWrites

(* ------------------------------- insert ------------------------------- *)
\* data.id = ++tbl.lastId
NextIdReused(tbl) == tbl.lastId
NextId(tbl) == tbl.lastId + 1

\* lowMem: os.freemem() < this.storage.leastfree at the time of the call
insert(t, v, lowMem) ==
  /\ opened
  /\ IF (writes + 1) % SampleEvery = 0 /\ lowMem
     THEN /\ timers' = clearTimeout(lastPersistDataTimeout, timers)
          /\ ret' = Ret("insert", t, undefined, NoRec,
                        "throw", "MemoryPressure", NoRec, <<>>, 0)
          /\ UNCHANGED <<memVars, lastPersistDataTimeout, now, diskVars,
                         opened, lastFlush, inFlight, histVars>>
     ELSE LET fresh == t \notin DOMAIN tables
              tbl == IF fresh THEN createTable ELSE tables[t]
              order == IF fresh THEN Append(tableOrder, t) ELSE tableOrder
              id == NextId(tbl)
              rec == [id |-> id, v |-> v]
              tbls == [x \in DOMAIN tables \cup {t} |->
                         IF x = t
                         THEN [tbl EXCEPT !.beforeLastId = tbl.lastId,
                                          !.lastId = id,
                                          !.inserts = Append(tbl.inserts, rec)]
                         ELSE tables[x]]
          IN /\ WritesLeft
             /\ tbl.lastId < MaxId
             /\ Len(tbl.inserts) < MaxBuf
             /\ tables' = tbls
             /\ tableOrder' = order
             /\ lastWrite' = now
             /\ asyncPersistData(tbls, order, writes + 1, now, worthPersistingNow,
                                 lastPersistDataTimeout, timers)
             /\ ret' = Ret("insert", t, id, rec, "ok", "none", NoRec, <<>>, 0)
             /\ expected' = ExpInsert(expected, t, rec)
             /\ durable' = (IF FlushDue(writes + 1, now, worthPersistingNow)
                            THEN expected' ELSE durable)
             /\ UNCHANGED <<now, opened>>

(* ------------------------------- update ------------------------------- *)
\* the error update / remove / truncate end with before changing anything:
\* the id test, then the access to a table that was never created
callError(tbls, t, id) ==
  IF idMissing(id) THEN "InvalidId"
  ELSE IF t \notin DOMAIN tbls THEN "TypeError"
  ELSE "none"

update(t, d) ==
  /\ opened
  /\ IF callError(tables, t, d.id) # "none"
     THEN /\ ret' = Ret("update", t, d.id, NoRec, "throw",
                        callError(tables, t, d.id), NoRec, <<>>, 0)
          /\ UNCHANGED <<memVars, timerVars, now, diskVars, opened, lastFlush, inFlight,
                         histVars>>
     ELSE LET tbl == tables[t]
              insertIndex == FindIndexById(tbl.inserts, d.id)
              tbls == [tables EXCEPT ![t] =
                         IF insertIndex # 0
                         THEN [tbl EXCEPT !.inserts[insertIndex] = d]
                         ELSE [tbl EXCEPT !.updates = Append(tbl.updates, d)]]
          IN /\ WritesLeft
             /\ insertIndex = 0 => Len(tbl.updates) < MaxBuf
             /\ tables' = tbls
             /\ lastWrite' = now
             /\ asyncPersistData(tbls, tableOrder, writes + 1, now,
                                 worthPersistingNow, lastPersistDataTimeout, timers)
             \* return this.get(table, data.id): the id is in a buffer now, so
             \* the scan of the files is not reached
             /\ LET r == getResult(tbls, index', data', t, d.id, Scalar0)
                IN ret' = Ret("update", t, d.id, d, r.kind, r.err, r.rec, <<>>, 0)
             /\ expected' = ExpUpdate(expected, t, d)
             /\ durable' = (IF FlushDue(writes + 1, now, worthPersistingNow)
                            THEN expected' ELSE durable)
             /\ UNCHANGED <<tableOrder, now, opened>>

(* ------------------------------- remove ------------------------------- *)
remove(t, id) ==
  /\ opened
  /\ IF callError(tables, t, id) # "none"
     THEN /\ ret' = Ret("remove", t, id, NoRec, "throw",
                        callError(tables, t, id), NoRec, <<>>, 0)
          /\ UNCHANGED <<memVars, timerVars, now, diskVars, opened, lastFlush, inFlight,
                         histVars>>
     ELSE LET tbl == tables[t]
              insertIndex == FindIndexById(tbl.inserts, id)
              tbls == [tables EXCEPT ![t] =
                         IF insertIndex # 0
                         THEN [tbl EXCEPT !.inserts = Splice(tbl.inserts, insertIndex)]
                         ELSE [tbl EXCEPT !.removals = Append(tbl.removals, id)]]
          IN /\ WritesLeft
             /\ insertIndex = 0 => Len(tbl.removals) < MaxBuf
             /\ tables' = tbls
             /\ lastWrite' = now
             /\ asyncPersistData(tbls, tableOrder, writes + 1, now,
                                 worthPersistingNow, lastPersistDataTimeout, timers)
             /\ ret' = Ret("remove", t, id, NoRec, "ok", "none", NoRec, <<>>, 0)
             /\ expected' = ExpRemove(expected, t, id)
             /\ durable' = (IF FlushDue(writes + 1, now, worthPersistingNow)
                            THEN expected' ELSE durable)
             /\ UNCHANGED <<tableOrder, now, opened>>

(* ------------------------------ truncate ------------------------------ *)
\* items.findIndex(item => item.id > start): 0-based position, -1 for none
FindIndexAbove(arr, start) ==
  IF \E i \in 1 .. Len(arr) : arr[i].id > start
  THEN (CHOOSE i \in 1 .. Len(arr) :
          /\ arr[i].id > start
          /\ \A j \in 1 .. (i - 1) : ~(arr[j].id > start)) - 1
  ELSE 0 - 1

truncate(t, start) ==
  /\ opened
  /\ IF t \notin DOMAIN tables
     THEN /\ ret' = Ret("truncate", t, start, NoRec, "throw", "TypeError",
                        NoRec, <<>>, 0)
          /\ UNCHANGED <<memVars, timerVars, now, diskVars, opened, lastFlush, inFlight,
                         histVars>>
     ELSE LET tbl == tables[t]
              idx == FindIndexAbove(tbl.items, start)
              tbls == [tables EXCEPT ![t] =
                         [tbl EXCEPT !.lastId = start, !.truncate = start]]
          IN /\ WritesLeft
             /\ tables' = tbls
             /\ lastWrite' = now
             /\ asyncPersistData(tbls, tableOrder, writes + 1, now, TRUE,
                                 lastPersistDataTimeout, timers)
             /\ ret' = Ret("truncate", t, start, NoRec, "ok", "none", NoRec,
                           <<>>, idx)
             /\ expected' = ExpTruncate(expected, t, start)
             /\ durable' = (IF FlushDue(writes + 1, now, TRUE)
                            THEN expected' ELSE durable)
             /\ UNCHANGED <<tableOrder, now, opened>>

(* ---------------------------- get, getAll ----------------------------- *)
get(t, id, g) ==
  /\ opened
  /\ LET r == getResult(tables, index, data, t, id, g)
     IN ret' = Ret("get", t, id, NoRec, r.kind, r.err, r.rec, <<>>, 0)
  /\ UNCHANGED <<memVars, timerVars, now, diskVars, opened, lastFlush, inFlight, histVars>>

getAll(t, items) ==
  /\ opened
  /\ t \in DOMAIN index => Len(items) = Len(Scanned(index[t]))
  /\ t \notin DOMAIN index => items = <<>>
  /\ ret' = getAllResult(index, data, t, items)
  /\ UNCHANGED <<memVars, timerVars, now, diskVars, opened, lastFlush, inFlight, histVars>>

(* ------------------------------- timers ------------------------------- *)
\* two minutes pass: the longest wait of asyncPersistData
Tick ==
  /\ now + 1000 * 60 * 2 <= MaxNow
  /\ now' = now + 1000 * 60 * 2
  /\ UNCHANGED <<memVars, timerVars, diskVars, opened, lastFlush, inFlight, ret, histVars>>
  /\ UNCHANGED effVars

\* the callback of setTimeout in asyncPersistData
TimerFire ==
  /\ opened
  /\ \E d \in timers :
       /\ d <= now
       /\ asyncPersistData(tables, tableOrder, writes, lastWrite,
                           worthPersistingNow, null, timers \ {d})
  /\ ret' = Ret("timer", "none", undefined, NoRec, "ok", "none", NoRec, <<>>, 0)
  /\ durable' = (IF FlushDue(writes, lastWrite, worthPersistingNow)
                 THEN expected ELSE durable)
  /\ UNCHANGED <<tables, tableOrder, lastWrite, now, opened, expected>>
  /\ UNCHANGED effVars

(* ----------------------------- initialize ----------------------------- *)
\* fs.readdirSync order of the table directories
RECURSIVE ReadDir(_)
ReadDir(S) == IF S = {} THEN <<>>
              ELSE LET x == CHOOSE y \in S : TRUE
                   IN <<x>> \o ReadDir(S \ {x})

\* The memory state the constructor builds from a directory: no table for a
\* new database; for an existing one a table per directory, its lastId parsed
\* from the first line of its index file (0 when the file is empty).  A
\* directory without an index file makes n-readlines throw ENOENT.
initialize(st, ds, idx) ==
  IF ~st
  THEN [opened |-> TRUE, tables |-> <<>>, order |-> <<>>]
  ELSE IF \E t \in ds : t \notin DOMAIN idx
  THEN [opened |-> FALSE, tables |-> <<>>, order |-> <<>>]
  ELSE [opened |-> TRUE,
        tables |-> [t \in ds |->
                      [createTable EXCEPT !.lastId =
                         IF idx[t] = <<>> THEN 0 ELSE ParseInt(idx[t][1])]],
        order |-> ReadDir(ds)]

Opened == Ret("open", "none", undefined, NoRec, "ok", "none", NoRec, <<>>, 0)

\* a new process opens the same directory; the timers of the old one are gone
Reopen ==
  /\ LET m == initialize(stamp, dirs, index)
     IN /\ opened' = m.opened
        /\ tables' = m.tables
        /\ tableOrder' = m.order
  /\ writes' = 0
  /\ lastWrite' = undefined
  /\ worthPersistingNow' = FALSE
  /\ exists' = stamp
  /\ lastPersistDataTimeout' = null
  /\ timers' = {}
  /\ lastFlush' = "none"
  /\ inFlight' = {}
  /\ ret' = (IF initialize(stamp, dirs, index).opened
             THEN Opened
             ELSE Ret("open", "none", undefined, NoRec, "throw", "ENOENT",
                      NoRec, <<>>, 0))
  /\ expected' = durable
  /\ UNCHANGED <<now, diskVars, durable>>
  /\ UNCHANGED effVars

(* -------------------------------- Init -------------------------------- *)
\* The directory the database is opened on: absent, or holding one table
\* with one stored record in the index / db format.
StoredRecord == [id |-> 1, v |-> "a"]
Disks ==
  { [stamp |-> FALSE, dirs |-> {}, index |-> <<>>, data |-> <<>>] } \cup
  { [stamp |-> TRUE, dirs |-> {t},
     index |-> [x \in {t} |-> << <<1>>, <<Len(Pack(StoredRecord)), 1>> >>],
     data |-> [x \in {t} |-> Pack(StoredRecord)]] : t \in TableNames }

Init ==
  \E dk \in Disks :
    /\ stamp = dk.stamp
    /\ dirs = dk.dirs
    /\ index = dk.index
    /\ data = dk.data
    /\ LET m == initialize(dk.stamp, dk.dirs, dk.index)
       IN /\ opened = m.opened
          /\ tables = m.tables
          /\ tableOrder = m.order
    /\ writes = 0
    /\ lastWrite = undefined
    /\ worthPersistingNow = FALSE
    /\ exists = dk.stamp
    /\ lastPersistDataTimeout = null
    /\ timers = {}
    /\ now = 0
    /\ lastFlush = "none"
    /\ inFlight = {}
    /\ EffSetNew
    /\ ret = Opened
    /\ expected = [t \in DOMAIN dk.index |->
                     StoredRecords(Tail(dk.index[t]), dk.data[t])]
    /\ durable = expected

\* A new database after insert(t, {v}) and w - 1 calls of update(t, {id: 1, v})
\* at time 0: one buffered insert, w writes, the timer armed by the last call.
InitBurst ==
  \E t \in TableNames, v \in {"a"}, w \in BurstStarts :
    /\ stamp = FALSE
    /\ dirs = {}
    /\ index = <<>>
    /\ data = <<>>
    /\ opened = TRUE
    /\ tables = [x \in {t} |->
                   [createTable EXCEPT !.lastId = 1, !.beforeLastId = 0,
                                       !.inserts = <<[id |-> 1, v |-> v]>>]]
    /\ tableOrder = <<t>>
    /\ writes = w
    /\ lastWrite = 0
    /\ worthPersistingNow = FALSE
    /\ exists = FALSE
    /\ lastPersistDataTimeout = (IF w > 1000 THEN 1 ELSE 60) * 1000
    /\ timers = {(IF w > 1000 THEN 1 ELSE 60) * 1000}
    /\ now = 0
    /\ lastFlush = "none"
    /\ inFlight = {}
    /\ EffSetNew
    /\ ret = Ret("update", t, 1, [id |-> 1, v |-> v], "undefined", "none",
                 NoRec, <<>>, 0)
    /\ expected = [x \in {t} |-> <<[id |-> 1, v |-> v]>>]
    /\ durable = <<>>

(* -------------------------------- Next -------------------------------- *)
\* what unpack may yield while get looks for id: the scalar, or a record
\* with that id
GarbageFor(id) == {Scalar0} \cup {r \in Decoded : r.id = id}

Insert == (\E t \in TableNames, lowMem \in BOOLEAN : insert(t, "a", lowMem))
            /\ UNCHANGED effVars
Update == \E t \in TableNames, id \in IdInputs, v \in {"b"} :
            update(t, [id |-> id, v |-> v]) /\ UNCHANGED effVars
Remove == (\E t \in TableNames, id \in IdInputs : remove(t, id)) /\ UNCHANGED effVars
Truncate == (\E t \in TableNames, start \in StartInputs : truncate(t, start))
              /\ UNCHANGED effVars
Get == (\E t \in TableNames, id \in IdInputs : \E g \in GarbageFor(id) : get(t, id, g))
         /\ UNCHANGED effVars
GetAll == \E t \in TableNames, n \in 0 .. MaxId :
            \E items \in [1 .. n -> Decoded] : getAll(t, items) /\ UNCHANGED effVars

Next ==
  \/ Insert
  \/ Update
  \/ Remove
  \/ Truncate
  \/ Get
  \/ GetAll
  \/ Tick
  \/ TimerFire
  \/ Reopen

\* the calls and timers of one process
NextBurst ==
  \/ Insert
  \/ Update
  \/ Remove
  \/ Truncate
  \/ Get
  \/ GetAll
  \/ Tick
  \/ TimerFire

Spec == Init /\ [][Next]_vars
SpecBurst == InitBurst /\ [][NextBurst]_vars

(* ============================ properties ============================== *)
\* the records pending in a table's buffers that carry the id
PendingWith(tb, id) ==
  Cardinality({i \in 1 .. Len(tb.inserts) : tb.inserts[i].id = id})
  + Cardinality({i \in 1 .. Len(tb.updates) : tb.updates[i].id = id})

\* the number of entries of a buffer of records with an id above start
Above(arr, start) == Cardinality({i \in 1 .. Len(arr) : arr[i].id > start})

\* the last call returned normally
Returned == ret.kind # "throw"

\* C1 (read-your-writes): a get(table, id) that directly follows an insert
\* that returned id, or an update of that id, with no flush in between,
\* returns exactly the record that call wrote.
C1_ReadYourWrites ==
  [][\A t \in TableNames, id \in 1 .. MaxId : \A g \in GarbageFor(id) :
       (/\ ret.op \in {"insert", "update"}
        /\ Returned
        /\ ret.table = t
        /\ ret.id = id
        /\ lastFlush = "none"
        /\ get(t, id, g))
       => (ret'.kind = "record" /\ ret'.rec = ret.arg)]_vars

\* C2 (tombstone): a get(table, id) that directly follows remove(table, id),
\* with no flush in between, reports not-found (null, or no value at all).
C2_Tombstone ==
  [][\A t \in TableNames, id \in 1 .. MaxId : \A g \in GarbageFor(id) :
       (/\ ret.op = "remove"
        /\ Returned
        /\ ret.table = t
        /\ ret.id = id
        /\ lastFlush = "none"
        /\ get(t, id, g))
       => ret'.kind \in {"null", "undefined"}]_vars

\* C3 (round-trip durability): after calls on a table, a flush and a reopen of
\* the directory, the database opens and getAll(table) returns the records the
\* calls before the flush were meant to leave, in ascending id order.
C3_RoundTrip ==
  [][/\ (lastFlush # "none" /\ Reopen) => opened'
     /\ \A t \in TableNames, n \in 0 .. MaxId :
          \A items \in [1 .. n -> Decoded] :
            (/\ ret.op = "open"
             /\ t \in DOMAIN durable
             /\ getAll(t, items))
            => (ret'.kind = "ok" /\ ret'.items = durable[t])]_vars

\* lastId of a table, 0 while the table does not exist
LastIdOf(tbls, t) == IF t \in DOMAIN tbls THEN tbls[t].lastId ELSE 0

\* the step is a call of op: every call records itself in ret, and the clock
\* step, which keeps ret, is the only one that advances now
Called(op) == now' = now /\ ret'.op = op

\* C4 (id assignment): an insert that returns gives the table's lastId + 1 (1
\* on a new table) and makes it the lastId; update, remove, get, getAll, the
\* timer, the clock and a failed call leave lastId alone; truncate(table, k)
\* sets it to k, and the insert that follows it returns k + 1.  (Opening the
\* directory again, which reads lastId back from the index file, is apart.)
C4_IdAssignment ==
  [][\A t \in TableNames :
       LET old == LastIdOf(tables, t)
           new == LastIdOf(tables', t)
       IN /\ (Called("insert") /\ ret'.kind = "ok" /\ ret'.table = t)
             => (ret'.id = old + 1 /\ new = ret'.id /\ ret'.id >= 1)
          /\ (\/ now' # now
              \/ ret'.op \in {"update", "remove", "get", "getAll", "timer"}
              \/ (ret'.kind = "throw" /\ ret'.op # "open"))
             => new = old
          /\ (Called("truncate") /\ ret'.kind = "ok" /\ ret'.table = t)
             => new = ret'.id
          /\ (/\ ret.op = "truncate"
              /\ Returned
              /\ ret.table = t
              /\ Called("insert")
              /\ ret'.kind = "ok"
              /\ ret'.table = t)
             => ret'.id = ret.id + 1]_vars

\* an insert has just returned the id after the threshold of a truncate
C4_InsertAfterTruncate ==
  /\ ret.op = "insert"
  /\ ret.kind = "ok"
  /\ ret.table \in DOMAIN tables
  /\ tables[ret.table].truncate >= 0
  /\ ret.id = tables[ret.table].truncate + 1
  /\ tables[ret.table].lastId = ret.id

\* C5 (truncate discards everything above the threshold): right after
\* truncate(table, k), get of a pending id above k reports not-found, and the
\* insert that is then assigned k + 1 leaves exactly one pending record with
\* that id.
C5_TruncateDiscards ==
  [][\A t \in TableNames, k \in StartInputs :
       (ret.op = "truncate" /\ Returned /\ ret.table = t /\ ret.id = k)
       => /\ \A id \in (k + 1) .. MaxId : \A g \in GarbageFor(id) :
               (PendingWith(tables[t], id) > 0 /\ get(t, id, g))
               => ret'.kind \in {"null", "undefined"}
          /\ (Insert /\ ret'.kind = "ok" /\ ret'.table = t)
             => PendingWith(tables'[t], k + 1) = 1]_vars

\* C6 (truncate's count): truncate(table, start) returns the number of
\* buffered records of the table with an id above start: at least those of
\* the insert buffer, at most those of all the buffers, never a negative number.
C6_TruncateCount ==
  [][\A t \in TableNames, k \in StartInputs :
       (truncate(t, k) /\ ret'.kind = "ok")
       => /\ ret'.count >= Above(tables[t].inserts, k)
          /\ ret'.count <= Above(tables[t].inserts, k)
                           + Above(tables[t].updates, k)
                           + Above(tables[t].items, k)]_vars

\* C7 (truncate to zero): after truncate(table, 0) and the flush it starts,
\* the table's index file holds the single line "0" and its db file is empty.
C7_TruncateToZero ==
  [][\A t \in TableNames :
       (truncate(t, 0) /\ ret'.kind = "ok")
       => /\ t \in DOMAIN index'
          /\ t \in DOMAIN data'
          /\ index'[t] = << <<0>> >>
          /\ data'[t] = <<>>]_vars

\* C8 (remove is idempotent): remove(table, id) with an id of at least 1
\* raises no error, whether the id is stored, buffered or absent, also when it
\* repeats the call before it; and the repeated call changes nothing in the
\* files the next flush leaves.
C8_RemoveIdempotent ==
  [][\A t \in TableNames, id \in 1 .. MaxId :
       remove(t, id)
       => /\ ret'.kind = "ok"
          /\ (ret.op = "remove" /\ Returned /\ ret.table = t /\ ret.id = id)
             => persistedDisk(tables', tableOrder', dirs', index', data')
                = persistedDisk(tables, tableOrder, dirs, index, data)]_vars

\* C9 (InvalidId): update, remove and get with a missing, zero or negative id
\* throw and leave the tables, writes, lastWrite and the timer as they were.
C9_InvalidId ==
  [][\A t \in TableNames, id \in {undefined, 0, 0 - 1} :
       ((\E v \in Values : update(t, [id |-> id, v |-> v]))
          \/ remove(t, id)
          \/ (\E g \in GarbageFor(id) : get(t, id, g)))
       => (ret'.kind = "throw" /\ UNCHANGED <<tables, writes, lastWrite, timerVars>>)]_vars

\* C10 (memory pressure): an insert at a sampling point with free memory
\* below the floor throws the memory failure, returns no id, leaves the
\* tables (lastId, inserts) and writes as they were, and leaves no timer
\* pending.
C10_MemoryPressure ==
  [][\A t \in TableNames :
       ((writes + 1) % SampleEvery = 0 /\ insert(t, "a", TRUE))
       => /\ ret'.kind = "throw"
          /\ ret'.err = "MemoryPressure"
          /\ ret'.id = undefined
          /\ UNCHANGED <<tables, tableOrder, writes>>
          /\ timers' = {}]_vars

\* an insert has just failed on memory while the handle of a timer was set
C10_InsertRefused ==
  /\ ret.op = "insert"
  /\ ret.err = "MemoryPressure"
  /\ lastPersistDataTimeout # null
  /\ timers = {}
  /\ (writes + 1) % SampleEvery = 0

\* the step starts a flush: a call that ends in asyncPersistData, or the timer
\* callback, finds the flush due
FlushStep ==
  \/ /\ Called("insert") \/ Called("update") \/ Called("remove")
     /\ ret'.kind # "throw"
     /\ FlushDue(writes + 1, now, worthPersistingNow)
  \/ Called("truncate") /\ ret'.kind = "ok"
  \/ Called("timer") /\ FlushDue(writes, lastWrite, worthPersistingNow)

JustFlushed ==
  \/ ret.op = "truncate" /\ Returned
  \/ ret.op = "timer" /\ lastPersistDataTimeout = null

\* C12 (recovery of lastId): when the directory is opened again after a
\* flush, the database opens and every table has the lastId it had at the
\* flush (so that the next insert returns that lastId + 1).
C12_LastIdRecovered ==
  [][(JustFlushed /\ Reopen)
     => /\ opened'
        /\ \A t \in DOMAIN tables :
             t \in DOMAIN tables' /\ tables'[t].lastId = tables[t].lastId]_vars

(* ---------------- opening a directory that is damaged ----------------- *)
\* A directory with a table directory whose index file is missing, or is
\* there without a first line.
CorruptDisks ==
  { [stamp |-> TRUE, dirs |-> {t}, index |-> <<>>, data |-> <<>>]
      : t \in TableNames } \cup
  { [stamp |-> TRUE, dirs |-> {t},
     index |-> [x \in {t} |-> <<>>],
     data |-> [x \in {t} |-> <<>>]] : t \in TableNames }

OpenFailed == Ret("open", "none", undefined, NoRec, "throw", "ENOENT", NoRec, <<>>, 0)

InitCorrupt ==
  \E dk \in CorruptDisks :
    /\ stamp = dk.stamp
    /\ dirs = dk.dirs
    /\ index = dk.index
    /\ data = dk.data
    /\ LET m == initialize(dk.stamp, dk.dirs, dk.index)
       IN /\ opened = m.opened
          /\ tables = m.tables
          /\ tableOrder = m.order
          /\ ret = (IF m.opened THEN Opened ELSE OpenFailed)
    /\ writes = 0
    /\ lastWrite = undefined
    /\ worthPersistingNow = FALSE
    /\ exists = dk.stamp
    /\ lastPersistDataTimeout = null
    /\ timers = {}
    /\ now = 0
    /\ lastFlush = "none"
    /\ inFlight = {}
    /\ EffSetNew
    /\ expected = [t \in DOMAIN dk.index |-> <<>>]
    /\ durable = expected

SpecCorrupt == InitCorrupt /\ [][Next]_vars

\* the index file of the table directory has no first line to read
NoFirstLine(t) == t \notin DOMAIN index \/ index[t] = <<>>

\* C13 (startup corruption): when the directory has just been opened and a
\* table directory has no readable first index line, the opening has failed,
\* and that table was not set up as a table.
C13_CorruptionSurfaced ==
  (ret.op = "open" /\ \E t \in dirs : NoFirstLine(t))
  => (/\ ~opened
      /\ ret.kind = "throw"
      /\ \A t \in dirs : NoFirstLine(t) => t \notin DOMAIN tables)

(* ------------------------- EffSet on its own -------------------------- *)
\* a new EffSet beside a database that nothing is done to
InitEffSet ==
  /\ \E dk \in {d \in Disks : ~d.stamp} :
       /\ stamp = dk.stamp
       /\ dirs = dk.dirs
       /\ index = dk.index
       /\ data = dk.data
  /\ opened = TRUE
  /\ tables = <<>>
  /\ tableOrder = <<>>
  /\ writes = 0
  /\ lastWrite = undefined
  /\ worthPersistingNow = FALSE
  /\ exists = FALSE
  /\ lastPersistDataTimeout = null
  /\ timers = {}
  /\ now = 0
  /\ lastFlush = "none"
  /\ inFlight = {}
  /\ ret = Opened
  /\ expected = <<>>
  /\ durable = <<>>
  /\ EffSetNew

Push == \E elem \in Elems : EffSet_push(elem)
Set == \E ix \in 0 .. (MaxRows - 1), elem \in Elems : EffSet_set(ix, elem)
RemoveAt == \E ix \in 0 .. (MaxRows - 1) : EffSet_remove(ix)
GetAt == \E ix \in 0 .. MaxRows : EffSet_get(ix)
SetLength == \E value \in 0 .. MaxRows : EffSet_setLength(value)

NextEffSet ==
  \/ Push
  \/ Set
  \/ RemoveAt
  \/ SetLength
  \/ GetAt
  \/ EffSet_getAll

SpecEffSet == InitEffSet /\ [][NextEffSet]_vars

\* every index of the container was filled by push and nothing else
OnlyPushed == \A i \in 1 .. Len(pushed) : pushed[i].by = "push"

\* C14 (row container round-trip): in a container built by push calls alone,
\* get(i) returns an object equal to the i-th pushed record (its fields with
\* their values, and no other field), and getAll() returns these objects in
\* push order.
C14_PushRoundTrip ==
  OnlyPushed
  => /\ (effRet.op = "get" /\ effRet.index < Len(pushed))
        => effRet.value = pushed[effRet.index + 1].view
     /\ effRet.op = "getAll"
        => effRet.all = [i \in 1 .. Len(pushed) |-> pushed[i].view]

\* C15 (row container set): right after set(i, record), get(i) gives an
\* object equal to the record, and get(j) for every other index gives what it
\* gave before.
C15_SetStores ==
  [][\A ix \in 0 .. (MaxRows - 1), elem \in Elems :
       EffSet_set(ix, elem)
       => /\ effGet(fields', entries', ix) = Obj(ObjOf(elem))
          /\ \A j \in 0 .. (MaxRows - 1) :
               j # ix => effGet(fields', entries', j) = effGet(fields, entries, j)]_vars

(* ---------------- what a flush is meant to leave behind --------------- *)
\* the sum of the byte lengths of index entries
RECURSIVE SumLengths(_)
SumLengths(lines) ==
  IF lines = <<>> THEN 0 ELSE ParseInt(lines[1]) + SumLengths(Tail(lines))

\* index entries and bytes of a table with the records of the ids in R left
\* out and the others kept as they are, in their order
RECURSIVE Compacted(_, _, _)
Compacted(lines, bytes, R) ==
  IF lines = <<>> THEN [lines |-> <<>>, bytes |-> <<>>]
  ELSE LET n == ParseInt(lines[1])
           rest == Compacted(Tail(lines), SubSeq(bytes, n + 1, Len(bytes)), R)
       IN IF lines[1][2] \in R THEN rest
          ELSE [lines |-> <<lines[1]>> \o rest.lines,
                bytes |-> SubSeq(bytes, 1, n) \o rest.bytes]

\* the last of the updates made for an id
LastUpdate(updates, id) ==
  updates[CHOOSE i \in 1 .. Len(updates) :
            updates[i].id = id /\ \A j \in (i + 1) .. Len(updates) : updates[j].id # id]

\* index entries and bytes of a table with every record that has a pending
\* update replaced by the serialization of the last update of its id
RECURSIVE Rewritten(_, _, _)
Rewritten(lines, bytes, updates) ==
  IF lines = <<>> THEN [lines |-> <<>>, bytes |-> <<>>]
  ELSE LET n == ParseInt(lines[1])
           id == lines[1][2]
           rest == Rewritten(Tail(lines), SubSeq(bytes, n + 1, Len(bytes)), updates)
       IN IF FindIndexById(updates, id) # 0
          THEN LET packed == Pack(LastUpdate(updates, id))
               IN [lines |-> << <<Len(packed), id>> >> \o rest.lines,
                   bytes |-> packed \o rest.bytes]
          ELSE [lines |-> <<lines[1]>> \o rest.lines,
                bytes |-> SubSeq(bytes, 1, n) \o rest.bytes]

\* the ids pending in a removals buffer
RemovalIds(tb) == {tb.removals[i] : i \in 1 .. Len(tb.removals)}

\* the table has both files, the index file with a first line
HasFiles(idx, dat, t) == t \in DOMAIN idx /\ t \in DOMAIN dat /\ idx[t] # <<>>

\* C16 (a flush resets the pending state): after a step that ran a flush,
\* every table's inserts, updates and removals buffers are empty, its
\* truncate marker is -1 and writes is 0.
C16_FlushResets ==
  [][FlushStep
     => /\ writes' = 0
        /\ \A t \in DOMAIN tables' :
             /\ tables'[t].inserts = <<>>
             /\ tables'[t].updates = <<>>
             /\ tables'[t].removals = <<>>
             /\ tables'[t].truncate = 0 - 1]_vars

\* C17 (index and data agree): after a step that ran a flush, every table
\* has an index file whose first line is the table's lastId and whose other
\* lines are "<byteLength>,<id>" of the stored records in the order of the db
\* file, the lengths adding up to the length of the db file.
C17_IndexMatchesData ==
  [][FlushStep
     => \A t \in DOMAIN tables' :
          /\ HasFiles(index', data', t)
          /\ index'[t][1] = <<tables'[t].lastId>>
          /\ \A i \in 2 .. Len(index'[t]) :
               /\ Len(index'[t][i]) = 2
               /\ index'[t][i][2]
                    = StoredRecords(Tail(index'[t]), data'[t])[i - 1].id
          /\ SumLengths(Tail(index'[t])) = Len(data'[t])]_vars

\* the step runs a flush of table t with nothing pending for it but what
\* its removals and updates buffers hold
RewriteOnly(t) ==
  /\ FlushStep
  /\ Called("timer")
  /\ t \in DOMAIN tables
  /\ HasFiles(index, data, t)
  /\ tables[t].truncate = 0 - 1
  /\ tables[t].inserts = <<>>

\* C18 (rewrites are installed): after a flush that had a removal or an
\* update of a stored record to apply, the live files show it: a removed
\* id has no index entry, an updated id has the bytes of an update made for
\* it; and the live files are never left with lengths that do not add up.
C18_RewriteInstalled ==
  [][/\ \A t \in TableNames :
          RewriteOnly(t)
          => LET before == StoredRecords(Tail(index[t]), data[t])
                 after == StoredRecords(Tail(index'[t]), data'[t])
             IN /\ \A id \in RemovalIds(tables[t]) :
                     FindIndexById(after, id) = 0
                /\ \A i \in 1 .. Len(before) :
                     (/\ FindIndexById(tables[t].updates, before[i].id) # 0
                      /\ before[i].id \notin RemovalIds(tables[t]))
                     => \E j \in 1 .. Len(after), k \in 1 .. Len(tables[t].updates) :
                          after[j] = tables[t].updates[k] /\ after[j].id = before[i].id
     /\ \A t \in DOMAIN index' :
          (t \in DOMAIN data' /\ index'[t] # <<>>)
          => SumLengths(Tail(index'[t])) = Len(data'[t])]_vars

\* C19 (removal compaction): a flush that has only removals to apply leaves
\* the index entries and bytes of exactly the records whose id is not among
\* them, unchanged and in their order.
C19_RemovalExact ==
  [][\A t \in TableNames :
       (RewriteOnly(t) /\ tables[t].updates = <<>>)
       => LET want == Compacted(Tail(index[t]), data[t], RemovalIds(tables[t]))
          IN /\ HasFiles(index', data', t)
             /\ Tail(index'[t]) = want.lines
             /\ data'[t] = want.bytes]_vars

\* C20 (update compaction, last writer wins): a flush that has only updates
\* to apply replaces the bytes and the index length of every stored record
\* with a pending update by the serialization of the last update of its id,
\* and leaves the other records and entries as they are.
C20_UpdateLastWins ==
  [][\A t \in TableNames :
       (RewriteOnly(t) /\ tables[t].removals = <<>>)
       => LET want == Rewritten(Tail(index[t]), data[t], tables[t].updates)
          IN /\ HasFiles(index', data', t)
             /\ Tail(index'[t]) = want.lines
             /\ data'[t] = want.bytes]_vars

(* --------------------------- order of a flush ------------------------- *)
\* the record of that id in a sequence of records, NoRec when there is none
RecordOf(seq, id) ==
  IF FindIndexById(seq, id) # 0 THEN seq[FindIndexById(seq, id)] ELSE NoRec

\* C21 (flush ordering): after a step that ran a flush, the files of every
\* table hold, for every id, what the calls made so far leave when they are
\* applied in the order they were made: no record for an id whose last call
\* removed or truncated it, and otherwise the record of the last insert or
\* update of that id.
C21_FlushOrder ==
  [][FlushStep
     => \A t \in DOMAIN tables' :
          /\ HasFiles(index', data', t)
          /\ \A id \in 1 .. (MaxId + 1) :
               RecordOf(StoredRecords(Tail(index'[t]), data'[t]), id)
                 = RecordOf(ExpOf(expected', t), id)]_vars

(* ------------------------ the scheduler decision ---------------------- *)
\* the decision as the specification words it: w writes, the time elapsed
\* since the last write in milliseconds, and the flag truncate sets; w / 100
\* minutes are w * 600 milliseconds
DecisionDue(w, elapsed, forced) ==
  \/ w >= 100 /\ elapsed >= w * 600
  \/ w >= 1000 /\ elapsed >= 1000
  \/ w < 100 /\ elapsed >= 2 * 60 * 1000
  \/ forced

\* C22 (scheduler decision): every successful mutation and every timer
\* callback evaluates the decision with the write count and the time since
\* the last write it finds.  When a run is due (normal, long, short or forced
\* by truncate) the step runs a flush and arms no timer; otherwise it leaves
\* the disk alone and arms a timer 1 second ahead when writes > 1000 and 60
\* seconds ahead otherwise.  truncate always runs a flush, and the forced
\* flag is clear after every evaluation.
C22_SchedulerDecision ==
  [][LET timer == Called("timer")
         mutation == /\ \/ Called("insert")
                        \/ Called("update")
                        \/ Called("remove")
                        \/ Called("truncate")
                     /\ ret'.kind # "throw"
         w == IF timer THEN writes ELSE writes + 1
         elapsed == IF timer THEN now - lastWrite ELSE 0
         forced == Called("truncate") \/ worthPersistingNow
         delay == IF w > 1000 THEN 1000 ELSE 60 * 1000
     IN (timer \/ mutation)
        => /\ worthPersistingNow' = FALSE
           /\ Called("truncate") => DecisionDue(w, elapsed, forced)
           /\ IF DecisionDue(w, elapsed, forced)
              THEN /\ lastFlush' # "none"
                   /\ exists'
                   /\ stamp'
                   /\ timers' \subseteq timers
              ELSE /\ UNCHANGED <<exists, stamp, dirs, index, data, lastFlush>>
                   /\ lastPersistDataTimeout' = now + delay
                   /\ timers' = {now + delay}]_vars

\* the timer callback has just found the long run due with exactly 1000
\* writes and started the flush without arming a timer
C22_LongRunFlushed ==
  /\ ret.op = "timer"
  /\ writes = 1000
  /\ lastFlush = "rejected"
  /\ lastPersistDataTimeout = null
  /\ timers = {}

(* ------------------------------ one timer ----------------------------- *)
\* C23 (single timer): in every reachable state at most one flush timer is
\* armed, and an armed timer is the one this.lastPersistDataTimeout names, so
\* that the cancel asyncPersistData makes before it arms a timer removes the
\* only pending one.
C23_SingleTimer ==
  /\ Cardinality(timers) <= 1
  /\ timers \subseteq {lastPersistDataTimeout}

\* a second mutation has replaced the timer the first one armed: two writes,
\* no flush and no timer callback so far, and one timer pending
C23_TimerReplaced ==
  /\ opened
  /\ writes = 2
  /\ lastFlush = "none"
  /\ ret.op \in {"insert", "update", "remove"}
  /\ Returned
  /\ timers = {lastWrite + 60 * 1000}

(* ---------------------------- eventual flush -------------------------- *)
\* C24 (eventual flush): no reachable state of an open database has writes
\* greater than 0 with no timer armed and no flush in progress, so that
\* pending writes always have a flush ahead of them.
C24_FlushAhead ==
  (opened /\ writes > 0) => (timers # {} \/ inFlight # {})

(* ----------------------------- failed flush --------------------------- *)
\* C25 (failed flush keeps the writes counter): a flush that runs while free
\* memory is below the floor fails, with the memory-pressure failure; and
\* whenever a flush fails, the step leaves the writes counter at the count
\* the scheduler evaluated and every table's inserts, updates and removals
\* buffers and truncate marker as the call left them.
C25_FailedFlush ==
  [][FlushStep
     => \A lowMem \in BOOLEAN :
          LET err == rejectedWith(tableOrder', lowMem)
              w == IF Called("timer") THEN writes ELSE writes + 1
          IN /\ lowMem => err = "MemoryPressure"
             /\ err # "none"
                => /\ lastFlush' = "rejected"
                   /\ writes' = w
                   /\ Called("timer") => tables' = tables]_vars

(* ------------------- mutating an unflushed insert --------------------- *)
\* seq with its i-th element left out
Without(seq, i) == SubSeq(seq, 1, i - 1) \o SubSeq(seq, i + 1, Len(seq))

\* C26 (mutating an unflushed insert): update(table, r) with r.id in the
\* inserts buffer replaces that entry in place and leaves updates and
\* removals as they are; remove(table, id) with id in the inserts buffer
\* deletes that entry and leaves updates and removals as they are.  With the
\* id not in inserts, update appends r to updates and nothing else, remove
\* appends id to removals and nothing else, and inserts is unchanged.
C26_UnflushedInsert ==
  [][\A t \in TableNames, id \in IdInputs :
       LET r == [id |-> id, v |-> "b"]
           was == tables[t]
           is == tables'[t]
           buffered == {i \in 1 .. Len(was.inserts) : was.inserts[i].id = id}
           called(op) == Called(op) /\ ret'.table = t /\ ret'.id = id
       IN /\ (called("update") /\ update(t, r) /\ callError(tables, t, id) = "none")
             => IF buffered # {}
                THEN /\ \E i \in buffered : is.inserts = [was.inserts EXCEPT ![i] = r]
                     /\ is.updates = was.updates
                     /\ is.removals = was.removals
                ELSE /\ is.updates = Append(was.updates, r)
                     /\ is.inserts = was.inserts
                     /\ is.removals = was.removals
          /\ (called("remove") /\ remove(t, id) /\ callError(tables, t, id) = "none")
             => IF buffered # {}
                THEN /\ \E i \in buffered : is.inserts = Without(was.inserts, i)
                     /\ is.updates = was.updates
                     /\ is.removals = was.removals
                ELSE /\ is.removals = Append(was.removals, id)
                     /\ is.inserts = was.inserts
                     /\ is.updates = was.updates]_vars

\* remove has just deleted the only buffered insert of a table: the id it
\* was called with is the table's lastId, and nothing is pending for it
C26_InsertDropped ==
  /\ ret.op = "remove"
  /\ Returned
  /\ ret.table \in DOMAIN tables
  /\ ret.id = tables[ret.table].lastId
  /\ ret.id = tables[ret.table].beforeLastId + 1
  /\ tables[ret.table].inserts = <<>>
  /\ tables[ret.table].removals = <<>>
  /\ writes = 2

(* --------------------------- field directory -------------------------- *)
\* C27 (row container field directory): after any sequence of push, set,
\* remove and length assignments the field directory lists every field name
\* once: no name stands at two positions of it, and every name of a record
\* that was pushed or set and is still stored stands in it.
C27_FieldDirectory ==
  /\ \A i \in 1 .. Len(fields), j \in 1 .. Len(fields) :
       fields[i] = fields[j] => i = j
  /\ \A i \in 1 .. Len(pushed) :
       pushed[i].view.found
       => \A k \in DOMAIN pushed[i].view.obj : IndexOf(fields, k) # 0
====
